---- MODULE Spec2Model ----
(***************************************************************************)
(* A model of mlstorage_server.mldb.MLDB: the experiment-document store on *)
(* top of one MongoDB collection.                                          *)
(*                                                                         *)
(* A document is a function from its present keys to their values (a       *)
(* Python dict / BSON document).  The collection maps the ObjectId counter *)
(* value of each stored document to the document; natural order is the     *)
(* insertion order, i.e. increasing counter value.                         *)
(*                                                                         *)
(* Every MLDB method is a coroutine.  Between two awaits its code runs     *)
(* atomically on the event loop, so a caller's position `pc` names the     *)
(* database call it has issued and is awaiting; the step that leaves this  *)
(* position performs that database call and runs the coroutine up to the   *)
(* next call it issues (or to its return / raise, position "done").  The   *)
(* one await that is no database call is asyncio.gather: at position       *)
(* "tasks_scheduled" the caller waits for tasks the event loop has not     *)
(* started yet.                                                            *)
(***************************************************************************)
EXTENDS Integers, Sequences, FiniteSets, TLC

VARIABLES coll, nextId, indexes, indexes_ensured, pc, frame, orphans

vars == <<coll, nextId, indexes, indexes_ensured, pc, frame, orphans>>

\* ------------------------------------------------------------------ bounds
\* documents ever inserted in the tree-shaped runs
MaxTreeDocs == 4
\* documents ever inserted in the field-level runs
MaxCrudDocs == 2
\* datetime.utcnow() returns a value in 0..MaxTime
MaxTime == 1
\* longest identifier list handed to complete_deletion
MaxIdListLen == 2

Times == 0..MaxTime

\* The callers (asyncio tasks) sharing the one MLDB instance.
Callers == {"c1", "c2"}

\* ------------------------------------------------------------ identifiers
\* An identifier argument is a native ObjectId, the 24-hex string of an
\* ObjectId, or a string that is no ObjectId.
Oid(n) == [form |-> "oid", n |-> n]
Str(n) == [form |-> "str", n |-> n]
BadId == [form |-> "bad", n |-> 0]

\* mlstorage_server.schema.validate_experiment_id: the native form of a
\* well-formed identifier; a malformed one is rejected.
ValidId(x) == x.form \in {"oid", "str"}
validate_experiment_id(x) == Oid(x.n)

\* ------------------------------------------------------------------ dicts
EmptyDoc == [k \in {} |-> 0]
Has(d, k) == k \in DOMAIN d
Pop(d, k) == [x \in DOMAIN d \ {k} |-> d[x]]
\* dict.update / Mongo's $set: the keys of f overwrite, the others stay
SetFields(d, f) ==
    [x \in DOMAIN d \cup DOMAIN f |-> IF x \in DOMAIN f THEN f[x] ELSE d[x]]
Field(k, v) == [x \in {k} |-> v]

\* a pop_experiment_id that forgets the database's own key
PopIdOnly(experiment_doc) == Pop(experiment_doc, "id")

pop_experiment_id(experiment_doc) == Pop(Pop(experiment_doc, "_id"), "id")

to_database_experiment_doc(experiment_doc) ==
    IF Has(experiment_doc, "id")
    THEN SetFields(Pop(experiment_doc, "id"), Field("_id", experiment_doc["id"]))
    ELSE experiment_doc

from_database_experiment_doc(experiment_doc) ==
    IF Has(experiment_doc, "_id")
    THEN SetFields(Pop(experiment_doc, "_id"), Field("id", experiment_doc["_id"]))
    ELSE experiment_doc

\* mlstorage_server.schema.validate_experiment_doc, an opaque pass/fail
\* validator: a status outside the enum fails, everything else passes as is.
StatusValues == {"RUNNING", "COMPLETED", "FAILED"}
ValidDoc(d) == Has(d, "status") => d["status"] \in StatusValues
validate_experiment_doc(d) == d

\* ---------------------------------------------------------------- indexes
ASCENDING == 1
DESCENDING == -1
IdIndex == << <<"_id", ASCENDING>> >>
\* the index plans MLDB.ensure_indexes passes, in order
RequiredIndexes ==
    << << <<"parent_id", ASCENDING>> >>,
       << <<"name", ASCENDING>> >>,
       << <<"tags", ASCENDING>> >>,
       << <<"status", ASCENDING>> >>,
       << <<"fingerprint", ASCENDING>> >>,
       << <<"args", ASCENDING>> >>,
       << <<"deleted", ASCENDING>> >>,
       << <<"start_time", DESCENDING>> >>,
       << <<"stop_time", DESCENDING>> >>,
       << <<"heartbeat", DESCENDING>> >> >>

\* ensure_mongo_indexes, after index_information() returned `information`:
\* the plans no existing index has as its key, in plan order
MissingIndexes(information) ==
    SelectSeq(RequiredIndexes, LAMBDA ix : ix \notin information)

\* ------------------------------------------------- the MongoDB collection
\* query conditions: a literal (equality) and {'$ne': v}
Eq(v) == [op |-> "eq", v |-> v]
Ne(v) == [op |-> "ne", v |-> v]

\* one field of a query against one document
MatchesField(doc, k, cond) ==
    IF cond.op = "eq"
    THEN Has(doc, k) /\ doc[k] = cond.v
    ELSE ~Has(doc, k) \/ doc[k] # cond.v

Matches(doc, query) == \A k \in DOMAIN query : MatchesField(doc, k, query[k])

RECURSIVE SlotSeq(_)
\* the counter values of S in increasing order (natural order)
SlotSeq(S) ==
    IF S = {} THEN <<>>
    ELSE LET m == CHOOSE x \in S : \A y \in S : x <= y
         IN <<m>> \o SlotSeq(S \ {m})

\* collection.find(query) without a sort: the matching slots in natural order
FindSlots(c, query) ==
    SelectSeq(SlotSeq(DOMAIN c), LAMBDA n : Matches(c[n], query))

\* collection.update_one(query, {'$set': fields}): the first match is updated
UpdateOneMatched(c, query) == Len(FindSlots(c, query))
UpdateOne(c, query, fields) ==
    LET hit == FindSlots(c, query)
    IN IF hit = <<>> THEN c
       ELSE [c EXCEPT ![hit[1]] = SetFields(c[hit[1]], fields)]

\* collection.delete_one(query): the first match is removed
DeleteOneCount(c, query) == IF FindSlots(c, query) = <<>> THEN 0 ELSE 1
DeleteOne(c, query) ==
    LET hit == FindSlots(c, query)
    IN IF hit = <<>> THEN c
       ELSE [n \in DOMAIN c \ {hit[1]} |-> c[n]]

\* collection.insert_one(doc): the driver assigns a fresh ObjectId as _id to
\* a document that has none; an _id some stored document has is a duplicate
\* key, and nothing is inserted
InsertedId(n, doc) == IF Has(doc, "_id") THEN doc["_id"] ELSE Oid(n)
DuplicateKey(c, n, doc) == \E m \in DOMAIN c : c[m]["_id"] = InsertedId(n, doc)
InsertOne(c, n, doc) ==
    IF DuplicateKey(c, n, doc) THEN c
    ELSE [x \in DOMAIN c \cup {n} |->
            IF x = n THEN SetFields(doc, Field("_id", InsertedId(n, doc))) ELSE c[x]]

\* collection.find_one(query): the first match, or None (the empty sequence)
FindOne(c, query) ==
    LET hit == FindSlots(c, query)
    IN IF hit = <<>> THEN <<>> ELSE <<c[hit[1]]>>

\* A missing sort field compares as null, below every time value.
Null == 0 - 1
SortKey(doc, k) == IF Has(doc, k) THEN doc[k] ELSE Null

RECURSIVE Before(_, _, _)
\* doc a sorts strictly before doc b under the (field, direction) list
Before(a, b, sort_by) ==
    IF sort_by = <<>> THEN FALSE
    ELSE LET k == sort_by[1][1]
             dir == sort_by[1][2]
             ka == SortKey(a, k)
             kb == SortKey(b, k)
         IN IF ka = kb THEN Before(a, b, Tail(sort_by))
            ELSE IF dir = ASCENDING THEN ka < kb ELSE ka > kb

\* insert doc x behind every element that does not sort after it (stable)
SortInsert(s, x, sort_by) ==
    LET later == {i \in 1..Len(s) : Before(x, s[i], sort_by)}
        pos == IF later = {} THEN Len(s) + 1
               ELSE CHOOSE i \in later : \A j \in later : i <= j
    IN SubSeq(s, 1, pos - 1) \o <<x>> \o SubSeq(s, pos, Len(s))

RECURSIVE SortDocs(_, _)
SortDocs(s, sort_by) ==
    IF s = <<>> THEN <<>>
    ELSE SortInsert(SortDocs(SubSeq(s, 1, Len(s) - 1), sort_by), s[Len(s)], sort_by)

\* collection.find(query, sort=sort_by): the matching documents, sorted
FindSorted(c, query, sort_by) ==
    LET hit == FindSlots(c, query)
    IN SortDocs([i \in 1..Len(hit) |-> c[hit[i]]], sort_by)

\* cursor.skip(skip).limit(limit), each applied only when truthy
Window(s, skip, limit) ==
    LET skipped == IF skip # 0 THEN SubSeq(s, skip + 1, Len(s)) ELSE s
    IN IF limit # 0 /\ limit < Len(skipped) THEN SubSeq(skipped, 1, limit)
       ELSE skipped

\* ------------------------------------------------------- coroutine frames
\* Python's recursion limit, scaled down: _mark_delete recursing deeper than
\* this raises RecursionError.
RecursionLimit == 6

NoArgs == [k \in {} |-> 0]

\* The frame of a call: its inputs, its locals, and what it returned/raised.
\*   pre, ensured_pre, indexes_pre: the store as the call found it
\*   repeat: what the caller's previous call returned, when this call
\*           repeats it (see NewFrame), else <<>>
\*   dbcalls: database calls the call has issued so far
\*   listed: the <<parent, child>> pairs the find cursors of _mark_delete
\*           have yielded so far
\*   ret: the returned value as a sequence (None and [] are <<>>)
\*   exc: the exception raised, "" when none
Frame(op, args, pre, ensured_pre, indexes_pre, repeat) ==
    [op |-> op, args |-> args, id |-> BadId, doc |-> EmptyDoc, query |-> EmptyDoc,
     idset |-> {}, pre |-> pre, ensured_pre |-> ensured_pre,
     indexes_pre |-> indexes_pre, repeat |-> repeat, dbcalls |-> 0,
     missing |-> <<>>, cur |-> BadId, stack |-> <<>>, ret |-> <<>>, exc |-> "",
     pending |-> {}, total |-> 0, failed |-> FALSE, listed |-> {}]

\* The frame of a call caller c makes now.  When the call is a
\* complete_deletion or a mark_delete with the arguments of the call of the
\* same method the caller made just before, which returned, repeat is what
\* that one returned.
NewFrame(c, op, args) ==
    Frame(op, args, coll, indexes_ensured, indexes,
          IF /\ op \in {"complete_deletion", "mark_delete"}
             /\ pc[c] = "done"
             /\ frame[c].op = op
             /\ frame[c].exc = ""
             /\ frame[c].args = args
          THEN frame[c].ret
          ELSE <<>>)

Raise(fr, e) == [pc |-> "done", fr |-> [fr EXCEPT !.exc = e]]
Return(fr, r) == [pc |-> "done", fr |-> [fr EXCEPT !.ret = r]]
\* the coroutine issues a database call and suspends on it
Issue(fr, label) == [pc |-> label, fr |-> [fr EXCEPT !.dbcalls = @ + 1]]

RECURSIVE Resume(_, _)
\* _mark_delete after one recursive call returned: the loop `async for c in
\* ...` of the innermost level goes on with its next child, a level whose
\* children are exhausted returns to the level above, the outermost returns.
Resume(fr, stack) ==
    IF stack = <<>> THEN Return([fr EXCEPT !.stack = <<>>], fr.ret)
    ELSE LET top == stack[Len(stack)]
         IN IF top = <<>> THEN Resume(fr, SubSeq(stack, 1, Len(stack) - 1))
            ELSE IF Len(stack) + 1 > RecursionLimit
                 THEN Raise([fr EXCEPT !.stack = stack], "RecursionError")
                 ELSE Issue([fr EXCEPT !.cur = Head(top),
                                      !.stack = [stack EXCEPT ![Len(stack)] = Tail(top)]],
                            "mark_update_one")

\* asyncio.gather(*tasks): with no task the result is there at once;
\* otherwise every deletion_task is wrapped in a task the event loop is still
\* to start, and complete_deletion suspends with no delete_one issued yet
Gather(fr) ==
    IF fr.idset = {} THEN Return(fr, <<0>>)
    ELSE [pc |-> "tasks_scheduled", fr |-> fr]

\* what each method does after `await self.ensure_indexes()` returned
AfterEnsure(fr) ==
    CASE fr.op = "create" -> Issue(fr, "insert_one")
      [] fr.op = "update" ->
            IF fr.doc # EmptyDoc THEN Issue(fr, "update_one") ELSE Return(fr, <<>>)
      [] fr.op \in {"set_heartbeat", "set_finished"} -> Issue(fr, "update_one")
      [] fr.op = "mark_delete" -> Issue([fr EXCEPT !.cur = fr.id], "mark_update_one")
      [] fr.op = "complete_deletion" -> Gather(fr)

\* an ensure_indexes that does not look at the flag
ensure_indexes_unflagged(fr, ensured) == Issue(fr, "index_information")

\* MLDB.ensure_indexes up to its first await
ensure_indexes(fr, ensured) ==
    IF ~ensured THEN Issue(fr, "index_information") ELSE AfterEnsure(fr)

\* ---------------------------------------------------- the methods, called
\* Each operator runs a method from its call to the first database call it
\* issues (or to its raise / return when it issues none).

\* lines 180-188 of create: the document handed to insert_one
\* a create that defaults heartbeat to the current time, not to start_time
CreateDocHeartbeatNow(name, doc_fields, now) ==
    LET d1 == SetFields(validate_experiment_doc(pop_experiment_id(doc_fields)),
                        Field("name", name))
        d2 == IF Has(d1, "start_time") THEN d1
              ELSE SetFields(d1, Field("start_time", now))
        d3 == IF Has(d2, "heartbeat") THEN d2
              ELSE SetFields(d2, Field("heartbeat", now))
    IN IF Has(d3, "status") THEN d3 ELSE SetFields(d3, Field("status", "RUNNING"))

CreateDoc(name, doc_fields, now) ==
    LET d1 == SetFields(validate_experiment_doc(pop_experiment_id(doc_fields)),
                        Field("name", name))
        d2 == IF Has(d1, "start_time") THEN d1
              ELSE SetFields(d1, Field("start_time", now))
        d3 == IF Has(d2, "heartbeat") THEN d2
              ELSE SetFields(d2, Field("heartbeat", d2["start_time"]))
    IN IF Has(d3, "status") THEN d3 ELSE SetFields(d3, Field("status", "RUNNING"))

get(fr, id) ==
    IF ~ValidId(id) THEN Raise(fr, "InvalidIdentifier")
    ELSE Issue([fr EXCEPT !.id = validate_experiment_id(id),
                          !.query = [_id |-> Eq(validate_experiment_id(id)),
                                     deleted |-> Ne(TRUE)]],
               "find_one")

create(fr, name, doc_fields, now, ensured) ==
    IF ~ValidDoc(pop_experiment_id(doc_fields)) THEN Raise(fr, "ValidationError")
    ELSE ensure_indexes([fr EXCEPT !.doc = CreateDoc(name, doc_fields, now)], ensured)

update(fr, id, doc_fields, ensured) ==
    IF ~ValidId(id) THEN Raise(fr, "InvalidIdentifier")
    ELSE IF ~ValidDoc(pop_experiment_id(doc_fields)) THEN Raise(fr, "ValidationError")
    ELSE ensure_indexes(
            [fr EXCEPT !.id = validate_experiment_id(id),
                       !.doc = validate_experiment_doc(pop_experiment_id(doc_fields))],
            ensured)

set_heartbeat(fr, id, doc_fields, now, ensured) ==
    IF ~ValidDoc(pop_experiment_id(doc_fields)) THEN Raise(fr, "ValidationError")
    ELSE ensure_indexes(
            [fr EXCEPT !.id = id,
                       !.doc = SetFields(
                                 validate_experiment_doc(pop_experiment_id(doc_fields)),
                                 Field("heartbeat", now))],
            ensured)

\* a set_finished that does not check its status argument
set_finished_any_status(fr, id, status, doc_fields, now, ensured) ==
    IF ~ValidDoc(pop_experiment_id(doc_fields)) THEN Raise(fr, "ValidationError")
    ELSE ensure_indexes(
            [fr EXCEPT !.id = id,
                       !.doc = SetFields(
                                 validate_experiment_doc(pop_experiment_id(doc_fields)),
                                 [stop_time |-> now, heartbeat |-> now,
                                  status |-> status])],
            ensured)

set_finished(fr, id, status, doc_fields, now, ensured) ==
    IF status \notin {"COMPLETED", "FAILED"} THEN Raise(fr, "ValueError")
    ELSE IF ~ValidDoc(pop_experiment_id(doc_fields)) THEN Raise(fr, "ValidationError")
    ELSE ensure_indexes(
            [fr EXCEPT !.id = id,
                       !.doc = SetFields(
                                 validate_experiment_doc(pop_experiment_id(doc_fields)),
                                 [stop_time |-> now, heartbeat |-> now,
                                  status |-> status])],
            ensured)

mark_delete(fr, id, ensured) ==
    IF ~ValidId(id) THEN Raise(fr, "InvalidIdentifier")
    ELSE ensure_indexes([fr EXCEPT !.id = validate_experiment_id(id)], ensured)

complete_deletion(fr, id_list, ensured) ==
    IF \E i \in 1..Len(id_list) : ~ValidId(id_list[i])
    THEN Raise(fr, "InvalidIdentifier")
    ELSE ensure_indexes(
            [fr EXCEPT !.idset = {validate_experiment_id(id_list[i]) :
                                      i \in 1..Len(id_list)}],
            ensured)

\* an iter_docs that keeps a condition on deleted the caller's filter has
fetch_docs_setdefault(fr, filter, include_deleted) ==
    IF ~ValidDoc(filter) THEN Raise(fr, "ValidationError")
    ELSE LET f == to_database_experiment_doc(validate_experiment_doc(filter))
             q == [k \in DOMAIN f |-> Eq(f[k])]
         IN Issue([fr EXCEPT !.query =
                       IF ~include_deleted /\ ~Has(q, "deleted")
                       THEN SetFields(q, Field("deleted", Ne(TRUE)))
                       ELSE q],
                  "find")

\* an iter_docs that excludes the soft-deleted exactly when asked to include
\* them
fetch_docs_inverted(fr, filter, include_deleted) ==
    IF ~ValidDoc(filter) THEN Raise(fr, "ValidationError")
    ELSE LET f == to_database_experiment_doc(validate_experiment_doc(filter))
             q == [k \in DOMAIN f |-> Eq(f[k])]
         IN Issue([fr EXCEPT !.query =
                       IF include_deleted
                       THEN SetFields(q, Field("deleted", Ne(TRUE)))
                       ELSE q],
                  "find")

\* iter_docs up to opening the cursor; fetch_docs drains it into a list
fetch_docs(fr, filter, include_deleted) ==
    IF ~ValidDoc(filter) THEN Raise(fr, "ValidationError")
    ELSE LET f == to_database_experiment_doc(validate_experiment_doc(filter))
             q == [k \in DOMAIN f |-> Eq(f[k])]
         IN Issue([fr EXCEPT !.query =
                       IF ~include_deleted
                       THEN SetFields(q, Field("deleted", Ne(TRUE)))
                       ELSE q],
                  "find")

\* ----------------------------------------------------------------- state
Init ==
    /\ coll = [n \in {} |-> EmptyDoc]
    /\ nextId = 1
    /\ indexes = {IdIndex}
    /\ indexes_ensured = FALSE
    /\ pc = [c \in Callers |-> "idle"]
    /\ frame = [c \in Callers |->
                  Frame("none", NoArgs, [n \in {} |-> EmptyDoc], FALSE, {IdIndex}, <<>>)]
    /\ orphans = {}

\* a caller that is in no call: it never called, or its last call is over
Idle(c) == pc[c] \in {"idle", "done"}

Goto(c, r) ==
    /\ pc' = [pc EXCEPT ![c] = r.pc]
    /\ frame' = [frame EXCEPT ![c] = r.fr]

\* create calls that have not inserted their document yet
Creating == {c \in Callers : ~Idle(c) /\ frame[c].op = "create"}

\* ----------------------------------------------------------------- calls
Get(c, id) ==
    /\ Idle(c)
    /\ Goto(c, get(NewFrame(c, "get", [id |-> id]), id))
    /\ UNCHANGED <<coll, nextId, indexes, indexes_ensured, orphans>>

Create(c, name, doc_fields, now) ==
    /\ Idle(c)
    /\ Goto(c, create(NewFrame(c, "create", [name |-> name, doc_fields |-> doc_fields,
                                          now |-> now]),
                      name, doc_fields, now, indexes_ensured))
    /\ UNCHANGED <<coll, nextId, indexes, indexes_ensured, orphans>>

Update(c, id, doc_fields) ==
    /\ Idle(c)
    /\ Goto(c, update(NewFrame(c, "update", [id |-> id, doc_fields |-> doc_fields]),
                      id, doc_fields, indexes_ensured))
    /\ UNCHANGED <<coll, nextId, indexes, indexes_ensured, orphans>>

SetHeartbeat(c, id, doc_fields, now) ==
    /\ Idle(c)
    /\ Goto(c, set_heartbeat(NewFrame(c, "set_heartbeat",
                                      [id |-> id, doc_fields |-> doc_fields,
                                       now |-> now]),
                             id, doc_fields, now, indexes_ensured))
    /\ UNCHANGED <<coll, nextId, indexes, indexes_ensured, orphans>>

SetFinished(c, id, status, doc_fields, now) ==
    /\ Idle(c)
    /\ Goto(c, set_finished(NewFrame(c, "set_finished",
                                     [id |-> id, status |-> status,
                                      doc_fields |-> doc_fields, now |-> now]),
                            id, status, doc_fields, now, indexes_ensured))
    /\ UNCHANGED <<coll, nextId, indexes, indexes_ensured, orphans>>

MarkDelete(c, id) ==
    /\ Idle(c)
    /\ Goto(c, mark_delete(NewFrame(c, "mark_delete", [id |-> id]), id, indexes_ensured))
    /\ UNCHANGED <<coll, nextId, indexes, indexes_ensured, orphans>>

CompleteDeletion(c, id_list) ==
    /\ Idle(c)
    /\ Goto(c, complete_deletion(NewFrame(c, "complete_deletion", [id_list |-> id_list]),
                                 id_list, indexes_ensured))
    /\ UNCHANGED <<coll, nextId, indexes, indexes_ensured, orphans>>

FetchDocs(c, filter, skip, limit, sort_by, include_deleted) ==
    /\ Idle(c)
    /\ Goto(c, fetch_docs(NewFrame(c, "fetch_docs",
                                   [filter |-> filter, skip |-> skip, limit |-> limit,
                                    sort_by |-> sort_by,
                                    include_deleted |-> include_deleted]),
                          filter, include_deleted))
    /\ UNCHANGED <<coll, nextId, indexes, indexes_ensured, orphans>>

\* ------------------------------------------------- database calls, served
\* ensure_mongo_indexes: index_information() answers
IndexInformation(c) ==
    /\ pc[c] = "index_information"
    /\ LET missing == MissingIndexes(indexes)
       IN IF missing # <<>>
          THEN /\ Goto(c, Issue([frame[c] EXCEPT !.missing = missing],
                                "create_indexes"))
               /\ UNCHANGED indexes_ensured
          ELSE /\ Goto(c, AfterEnsure(frame[c]))
               /\ indexes_ensured' = TRUE
    /\ UNCHANGED <<coll, nextId, indexes, orphans>>

\* ensure_mongo_indexes: create_indexes(index_models) answers
CreateIndexes(c) ==
    /\ pc[c] = "create_indexes"
    /\ indexes' = indexes \cup {frame[c].missing[i] : i \in 1..Len(frame[c].missing)}
    /\ indexes_ensured' = TRUE
    /\ Goto(c, AfterEnsure([frame[c] EXCEPT !.missing = <<>>]))
    /\ UNCHANGED <<coll, nextId, orphans>>

\* MLDB.get: find_one answers
GetResult(c, query) ==
    LET hit == FindOne(c, query)
    IN [i \in 1..Len(hit) |-> from_database_experiment_doc(hit[i])]

FindOneStep(c) ==
    /\ pc[c] = "find_one"
    /\ Goto(c, Return(frame[c], GetResult(coll, frame[c].query)))
    /\ UNCHANGED <<coll, nextId, indexes, indexes_ensured, orphans>>

\* MLDB.create: insert_one answers
InsertResult(fr, c, n) ==
    IF DuplicateKey(c, n, fr.doc) THEN Raise(fr, "DuplicateKeyError")
    ELSE Return(fr, <<InsertedId(n, fr.doc)>>)

InsertOneStep(c) ==
    /\ pc[c] = "insert_one"
    /\ coll' = InsertOne(coll, nextId, frame[c].doc)
    /\ nextId' = nextId + 1
    /\ Goto(c, InsertResult(frame[c], coll, nextId))
    /\ UNCHANGED <<indexes, indexes_ensured, orphans>>

\* MLDB._update: the query, and what follows the answer of update_one
\* an _update that matches the identifier alone
UpdateQueryAnyState(id) == [_id |-> Eq(id)]

UpdateQuery(id) == [_id |-> Eq(id), deleted |-> Ne(TRUE)]

\* an _update that does not look at matched_count
UpdateResultIgnored(fr, matched_count) == Return(fr, <<>>)

UpdateResult(fr, matched_count) ==
    IF matched_count < 1 THEN Raise(fr, "KeyError") ELSE Return(fr, <<>>)

UpdateOneStep(c) ==
    /\ pc[c] = "update_one"
    /\ coll' = UpdateOne(coll, UpdateQuery(frame[c].id), frame[c].doc)
    /\ Goto(c, UpdateResult(frame[c],
                            UpdateOneMatched(coll, UpdateQuery(frame[c].id))))
    /\ UNCHANGED <<nextId, indexes, indexes_ensured, orphans>>

\* MLDB._mark_delete: update_one({'_id': id}, {'$set': {'deleted': True}}) answers
\* a _mark_delete that, like _update, matches only what is not soft-deleted
MarkQueryNotDeleted(id) == [_id |-> Eq(id), deleted |-> Ne(TRUE)]

MarkQuery(id) == [_id |-> Eq(id)]

\* a _mark_delete that walks on although update_one matched nothing
MarkResultUnchecked(fr, matched_count) ==
    Issue([fr EXCEPT !.ret = IF matched_count > 0 THEN Append(fr.ret, fr.cur)
                              ELSE fr.ret],
          "mark_find")

MarkResult(fr, matched_count) ==
    IF matched_count > 0
    THEN Issue([fr EXCEPT !.ret = Append(fr.ret, fr.cur)], "mark_find")
    ELSE Resume(fr, fr.stack)

MarkUpdateOneStep(c) ==
    /\ pc[c] = "mark_update_one"
    /\ coll' = UpdateOne(coll, MarkQuery(frame[c].cur), [deleted |-> TRUE])
    /\ Goto(c, MarkResult(frame[c], UpdateOneMatched(coll, MarkQuery(frame[c].cur))))
    /\ UNCHANGED <<nextId, indexes, indexes_ensured, orphans>>

\* a _mark_delete that takes a failed update_one for one that matched nothing
MarkUpdateOneSkips(c) ==
    /\ pc[c] = "mark_update_one"
    /\ Goto(c, Resume(frame[c], frame[c].stack))
    /\ UNCHANGED <<coll, nextId, indexes, indexes_ensured, orphans>>

\* MLDB._mark_delete: update_one raises (the database is unreachable, or its
\* answer is lost after the update was applied); nothing in _mark_delete or
\* mark_delete catches it
MarkUpdateOneFails(c) ==
    /\ pc[c] = "mark_update_one"
    /\ \E applied \in BOOLEAN :
          coll' = IF applied
                  THEN UpdateOne(coll, MarkQuery(frame[c].cur), [deleted |-> TRUE])
                  ELSE coll
    /\ Goto(c, Raise([frame[c] EXCEPT !.failed = TRUE], "DBError"))
    /\ UNCHANGED <<nextId, indexes, indexes_ensured, orphans>>

\* MLDB._mark_delete: the find cursor raises
MarkFindFails(c) ==
    /\ pc[c] = "mark_find"
    /\ Goto(c, Raise([frame[c] EXCEPT !.failed = TRUE], "DBError"))
    /\ UNCHANGED <<coll, nextId, indexes, indexes_ensured, orphans>>

\* MLDB._mark_delete: find({'parent_id': id}, {'_id': 1}) answers with the
\* identifiers of the children
\* a _mark_delete that follows only the first child
ChildrenFirstOnly(c, id) ==
    LET hit == FindSlots(c, [parent_id |-> Eq(id)])
    IN IF hit = <<>> THEN <<>> ELSE <<c[hit[1]]["_id"]>>

Children(c, id) ==
    LET hit == FindSlots(c, [parent_id |-> Eq(id)])
    IN [i \in 1..Len(hit) |-> c[hit[i]]["_id"]]

\* what the cursor of find({'parent_id': id}) yields, as pairs
Listing(c, id) ==
    {<<id, Children(c, id)[i]>> : i \in 1..Len(Children(c, id))}

\* a _mark_delete that reads the children of its target and does not go
\* into them
MarkFindStepNoDescent(c) ==
    /\ pc[c] = "mark_find"
    /\ Goto(c, Resume([frame[c] EXCEPT !.listed = @ \cup Listing(coll, frame[c].cur)],
                      Append(frame[c].stack, <<>>)))
    /\ UNCHANGED <<coll, nextId, indexes, indexes_ensured, orphans>>

MarkFindStep(c) ==
    /\ pc[c] = "mark_find"
    /\ Goto(c, Resume([frame[c] EXCEPT !.listed = @ \cup Listing(coll, frame[c].cur)],
                      Append(frame[c].stack, Children(coll, frame[c].cur))))
    /\ UNCHANGED <<coll, nextId, indexes, indexes_ensured, orphans>>

\* MLDB.complete_deletion: the event loop starts the deletion tasks, which
\* gather queued one behind the other: each runs up to its delete_one
DeletionTasksStart(c) ==
    /\ pc[c] = "tasks_scheduled"
    /\ pc' = [pc EXCEPT ![c] = "gather"]
    /\ frame' = [frame EXCEPT ![c].pending = frame[c].idset,
                              ![c].dbcalls = @ + Cardinality(frame[c].idset)]
    /\ UNCHANGED <<coll, nextId, indexes, indexes_ensured, orphans>>

\* MLDB.complete_deletion: the delete_one of one deletion_task answers
DeleteOneStep(c, i) ==
    /\ pc[c] = "gather"
    /\ i \in frame[c].pending
    /\ coll' = DeleteOne(coll, [_id |-> Eq(i)])
    /\ frame' = [frame EXCEPT ![c].pending = @ \ {i},
                              ![c].total = @ + DeleteOneCount(coll, [_id |-> Eq(i)])]
    /\ UNCHANGED <<nextId, indexes, indexes_ensured, pc, orphans>>

\* the delete_one of one deletion_task fails (the database is unreachable)
DeleteOneFails(c, i) ==
    /\ pc[c] = "gather"
    /\ i \in frame[c].pending
    /\ frame' = [frame EXCEPT ![c].pending = @ \ {i}, ![c].failed = TRUE]
    /\ UNCHANGED <<coll, nextId, indexes, indexes_ensured, pc, orphans>>

\* `await asyncio.gather(*tasks)` resumes: with the first exception of a
\* task as soon as there is one, else with all results once all are in.
\* gather cancels nothing: the deletes still pending go on without a waiter.
\* a complete_deletion that counts its tasks, not what they deleted
GatherResultTaskCount(fr) ==
    IF fr.failed THEN Raise(fr, "DBError") ELSE Return(fr, <<Cardinality(fr.idset)>>)

GatherResult(fr) ==
    IF fr.failed THEN Raise(fr, "DBError") ELSE Return(fr, <<fr.total>>)

GatherReady(fr) == fr.failed \/ fr.pending = {}

GatherDone(c) ==
    /\ pc[c] = "gather"
    /\ GatherReady(frame[c])
    /\ Goto(c, GatherResult(frame[c]))
    /\ orphans' = orphans \cup frame[c].pending
    /\ UNCHANGED <<coll, nextId, indexes, indexes_ensured>>

\* a delete_one nobody awaits any more is served
OrphanDelete(i) ==
    /\ i \in orphans
    /\ orphans' = orphans \ {i}
    /\ coll' = DeleteOne(coll, [_id |-> Eq(i)])
    /\ UNCHANGED <<nextId, indexes, indexes_ensured, pc, frame>>

\* a delete_one nobody awaits any more fails
OrphanDeleteFails(i) ==
    /\ i \in orphans
    /\ orphans' = orphans \ {i}
    /\ UNCHANGED <<coll, nextId, indexes, indexes_ensured, pc, frame>>

\* iter_docs: the cursor delivers; fetch_docs collects the renamed documents
FetchResult(c, query, sort_by, skip, limit) ==
    LET found == Window(FindSorted(c, query,
                                   IF sort_by = <<>>
                                   THEN << <<"heartbeat", DESCENDING>> >>
                                   ELSE sort_by),
                        skip, limit)
    IN [i \in 1..Len(found) |-> from_database_experiment_doc(found[i])]

FindStep(c) ==
    /\ pc[c] = "find"
    /\ Goto(c, Return(frame[c],
                      FetchResult(coll, frame[c].query, frame[c].args.sort_by,
                                  frame[c].args.skip, frame[c].args.limit)))
    /\ UNCHANGED <<coll, nextId, indexes, indexes_ensured, orphans>>

\* --------------------------------------------------------------- inputs
\* identifier arguments naming the ObjectIds of S, in both forms, and a
\* malformed one
IdArgs(S) == {Oid(n) : n \in S} \cup {Str(n) : n \in S} \cup {BadId}

\* identifier lists of length 0..MaxIdListLen over the identifiers in A
IdLists(A) == UNION {[1..k -> A] : k \in 0..MaxIdListLen}

\* ------------------------------------------- experiment trees, one caller
TreeIds == 1..MaxTreeDocs
\* a new document has no parent, or names as parent an identifier assigned
\* so far
TreePayloads == {EmptyDoc} \cup {[parent_id |-> Oid(p)] : p \in 1..(nextId - 1)}

CreateTree(c) ==
    /\ nextId + Cardinality(Creating) <= MaxTreeDocs
    /\ \E f \in TreePayloads : Create(c, "exp", f, 0)

\* update re-parents the first document to itself or to the second one, which
\* closes a parent_id cycle of length one or two
UpdateParent(c) == \E p \in 1..2 : Update(c, Oid(1), [parent_id |-> Oid(p)])

NextTree ==
    \E c \in {"c1"} :
        \/ CreateTree(c)
        \/ UpdateParent(c)
        \/ UpdateOneStep(c)
        \/ \E n \in TreeIds : MarkDelete(c, Oid(n))
        \/ \E n \in TreeIds : CompleteDeletion(c, <<Oid(n)>>)
        \/ IndexInformation(c)
        \/ CreateIndexes(c)
        \/ InsertOneStep(c)
        \/ MarkUpdateOneStep(c)
        \/ MarkFindStep(c)
        \/ DeletionTasksStart(c)
        \/ \E i \in frame[c].pending : DeleteOneStep(c, i)
        \/ GatherDone(c)

SpecTree == Init /\ [][NextTree]_vars

\* ------------------------------- status and identifier handling, one caller
CrudIds == 1..MaxCrudDocs
\* payloads: none, an identifier field only, a status, a status the
\* validator rejects
CrudPayloads ==
    {EmptyDoc, [id |-> Oid(1)], [_id |-> Oid(2)], [status |-> "RUNNING"],
     [status |-> "BOGUS"]}
\* statuses handed to set_finished
FinishStatuses == {"COMPLETED", "FAILED", "RUNNING"}
\* identifier lists: one identifier of either form, a malformed one, and a
\* well-formed one followed by a malformed one
CrudIdLists == {<<x>> : x \in IdArgs(CrudIds)} \cup {<<Oid(1), BadId>>}

CreateCrud(c) ==
    /\ nextId + Cardinality(Creating) <= MaxCrudDocs
    /\ \E f \in {EmptyDoc, [id |-> Oid(1)], [status |-> "BOGUS"]} :
          Create(c, "exp", f, 0)

Next ==
    \E c \in {"c1"} :
        \/ CreateCrud(c)
        \/ \E id \in IdArgs(CrudIds) : Get(c, id)
        \/ \E id \in IdArgs(CrudIds), f \in CrudPayloads : Update(c, id, f)
        \/ \E id \in IdArgs(CrudIds), f \in {EmptyDoc, [status |-> "BOGUS"]} :
              SetHeartbeat(c, id, f, 0)
        \/ \E id \in IdArgs(CrudIds), st \in FinishStatuses,
              f \in {EmptyDoc, [status |-> "BOGUS"]} :
              SetFinished(c, id, st, f, 0)
        \/ \E id \in IdArgs(CrudIds) : MarkDelete(c, id)
        \/ \E l \in CrudIdLists : CompleteDeletion(c, l)
        \/ IndexInformation(c)
        \/ CreateIndexes(c)
        \/ FindOneStep(c)
        \/ InsertOneStep(c)
        \/ UpdateOneStep(c)
        \/ MarkUpdateOneStep(c)
        \/ MarkFindStep(c)
        \/ DeletionTasksStart(c)
        \/ \E i \in frame[c].pending : DeleteOneStep(c, i)
        \/ GatherDone(c)

Spec == Init /\ [][Next]_vars

\* --------------------------------------------- creation inputs, one caller
\* doc_fields of create: nothing, one of the fields create defaults, a
\* deleted flag, an identifier field, a name, a status the validator rejects
CreatePayloads ==
    {EmptyDoc, [id |-> Oid(1)], [_id |-> Oid(1)], [name |-> "other"],
     [status |-> "BOGUS"]}
    \cup {[start_time |-> t] : t \in Times}
    \cup {[heartbeat |-> t] : t \in Times}
    \cup {[status |-> st] : st \in StatusValues}
    \cup {[deleted |-> b] : b \in BOOLEAN}

CreateAny(c) ==
    /\ nextId + Cardinality(Creating) <= MaxCrudDocs
    /\ \E f \in CreatePayloads, now \in Times : Create(c, "exp", f, now)

NextCreate ==
    \E c \in {"c1"} :
        \/ CreateAny(c)
        \/ \E id \in IdArgs(CrudIds) : Get(c, id)
        \/ IndexInformation(c)
        \/ CreateIndexes(c)
        \/ InsertOneStep(c)
        \/ FindOneStep(c)

SpecCreate == Init /\ [][NextCreate]_vars

\* ------------------------------------------------------ queries, one caller
\* largest skip and largest limit handed to fetch_docs (0 stands for None)
MaxSkip == 1
MaxLimit == 1

\* caller filters: none, on the deleted flag, on a time, on the identifier,
\* and one the validator rejects
Filters ==
    {EmptyDoc, [deleted |-> TRUE], [deleted |-> FALSE], [heartbeat |-> 0],
     [id |-> Oid(1)], [status |-> "BOGUS"]}
\* sort_by: None (the empty sequence) or ascending start_time
Sorts == {<<>>, << <<"start_time", ASCENDING>> >>}

CreateTimed(c) ==
    /\ nextId + Cardinality(Creating) <= MaxCrudDocs
    /\ \E now \in Times : Create(c, "exp", EmptyDoc, now)

NextQuery ==
    \E c \in {"c1"} :
        \/ CreateTimed(c)
        \/ \E n \in CrudIds : MarkDelete(c, Oid(n))
        \/ \E f \in Filters, skip \in 0..MaxSkip, limit \in 0..MaxLimit,
              sort_by \in Sorts, include_deleted \in BOOLEAN :
              FetchDocs(c, f, skip, limit, sort_by, include_deleted)
        \/ IndexInformation(c)
        \/ CreateIndexes(c)
        \/ InsertOneStep(c)
        \/ MarkUpdateOneStep(c)
        \/ MarkFindStep(c)
        \/ FindStep(c)

SpecQuery == Init /\ [][NextQuery]_vars

\* ------------------------------------------------ hard deletion, one caller
CreatePlain(c) ==
    /\ nextId + Cardinality(Creating) <= MaxCrudDocs
    /\ Create(c, "exp", EmptyDoc, 0)

\* identifier lists with repetitions, in native and string form
DeletionLists == IdLists({Oid(n) : n \in CrudIds} \cup {Str(n) : n \in CrudIds})

NextDeletion ==
    \E c \in {"c1"} :
        \/ CreatePlain(c)
        \/ \E n \in CrudIds : MarkDelete(c, Oid(n))
        \/ \E l \in DeletionLists : CompleteDeletion(c, l)
        \/ IndexInformation(c)
        \/ CreateIndexes(c)
        \/ InsertOneStep(c)
        \/ MarkUpdateOneStep(c)
        \/ MarkFindStep(c)
        \/ DeletionTasksStart(c)
        \/ \E i \in frame[c].pending : DeleteOneStep(c, i)
        \/ GatherDone(c)

SpecDeletion == Init /\ [][NextDeletion]_vars

\* ------------------------- hard deletion with failing deletes, one caller
NextGather ==
    \E c \in {"c1"} :
        \/ CreatePlain(c)
        \/ \E l \in IdLists({Oid(n) : n \in CrudIds}) : CompleteDeletion(c, l)
        \/ IndexInformation(c)
        \/ CreateIndexes(c)
        \/ InsertOneStep(c)
        \/ DeletionTasksStart(c)
        \/ \E i \in frame[c].pending : DeleteOneStep(c, i)
        \/ \E i \in frame[c].pending : DeleteOneFails(c, i)
        \/ GatherDone(c)
        \/ \E i \in orphans : OrphanDelete(i)
        \/ \E i \in orphans : OrphanDeleteFails(i)

SpecGather == Init /\ [][NextGather]_vars

\* ------------------------------- identifier fields in payloads, one caller
\* payloads that carry an identifier under either name, next to a field
IdentPayloads ==
    {EmptyDoc}
    \cup {[_id |-> Oid(n), name |-> "renamed"] : n \in CrudIds}
    \cup {[id |-> Oid(n), name |-> "renamed"] : n \in CrudIds}

CreateIdent(c) ==
    /\ nextId + Cardinality(Creating) <= MaxCrudDocs
    /\ \E f \in IdentPayloads : Create(c, "exp", f, 0)

NextIdent ==
    \E c \in {"c1"} :
        \/ CreateIdent(c)
        \/ \E n \in CrudIds, f \in IdentPayloads : Update(c, Oid(n), f)
        \/ \E n \in CrudIds, f \in IdentPayloads : SetHeartbeat(c, Oid(n), f, MaxTime)
        \/ \E n \in CrudIds, f \in IdentPayloads : SetFinished(c, Oid(n), "FAILED", f, MaxTime)
        \/ \E n \in CrudIds : MarkDelete(c, Oid(n))
        \/ IndexInformation(c)
        \/ CreateIndexes(c)
        \/ InsertOneStep(c)
        \/ UpdateOneStep(c)
        \/ MarkUpdateOneStep(c)
        \/ MarkFindStep(c)

SpecIdent == Init /\ [][NextIdent]_vars

\* ------------------------------- soft then hard deletion, reads, one caller
\* a new document has no parent or is a child of the first document
LifePayloads == {EmptyDoc, [parent_id |-> Oid(1)]}

CreateLife(c) ==
    /\ nextId + Cardinality(Creating) <= MaxCrudDocs
    /\ \E f \in LifePayloads : Create(c, "exp", f, 0)

NextLife ==
    \E c \in {"c1"} :
        \/ CreateLife(c)
        \/ \E n \in CrudIds : Get(c, Oid(n))
        \/ \E n \in CrudIds : Update(c, Oid(n), [name |-> "renamed"])
        \/ \E n \in CrudIds : SetFinished(c, Oid(n), "COMPLETED", EmptyDoc, MaxTime)
        \/ \E n \in CrudIds : MarkDelete(c, Oid(n))
        \/ \E n \in CrudIds : CompleteDeletion(c, <<Oid(n)>>)
        \/ \E include_deleted \in BOOLEAN :
              FetchDocs(c, EmptyDoc, 0, 0, <<>>, include_deleted)
        \/ IndexInformation(c)
        \/ CreateIndexes(c)
        \/ FindOneStep(c)
        \/ InsertOneStep(c)
        \/ UpdateOneStep(c)
        \/ MarkUpdateOneStep(c)
        \/ MarkFindStep(c)
        \/ DeletionTasksStart(c)
        \/ \E i \in frame[c].pending : DeleteOneStep(c, i)
        \/ GatherDone(c)
        \/ FindStep(c)

SpecLife == Init /\ [][NextLife]_vars

\* ------------------------------------- two callers sharing the one instance
\* a new document has no parent or is a child of the first document
RacePayloads == {EmptyDoc, [parent_id |-> Oid(1)]}
CreateRace(c) ==
    /\ nextId + Cardinality(Creating) <= MaxCrudDocs
    /\ \E f \in RacePayloads : Create(c, "exp", f, 0)

\* one caller writes documents while the other deletes the first document
NextRace ==
    \/ CreateRace("c2")
    \/ Update("c2", Oid(1), [deleted |-> FALSE])
    \/ Update("c2", Oid(2), [parent_id |-> Oid(1)])
    \/ SetHeartbeat("c2", Oid(1), EmptyDoc, MaxTime)
    \/ SetFinished("c2", Oid(1), "FAILED", EmptyDoc, MaxTime)
    \/ MarkDelete("c1", Oid(1))
    \/ CompleteDeletion("c1", <<Oid(1)>>)
    \/ \E c \in Callers :
        \/ IndexInformation(c)
        \/ CreateIndexes(c)
        \/ InsertOneStep(c)
        \/ UpdateOneStep(c)
        \/ MarkUpdateOneStep(c)
        \/ MarkFindStep(c)
        \/ DeletionTasksStart(c)
        \/ \E i \in frame[c].pending : DeleteOneStep(c, i)
        \/ GatherDone(c)

SpecRace == Init /\ [][NextRace]_vars

\* --------------------- experiment trees with failing database calls, one caller
NextMarkFail ==
    \E c \in {"c1"} :
        \/ CreateTree(c)
        \/ \E n \in TreeIds : MarkDelete(c, Oid(n))
        \/ IndexInformation(c)
        \/ CreateIndexes(c)
        \/ InsertOneStep(c)
        \/ MarkUpdateOneStep(c)
        \/ MarkUpdateOneFails(c)
        \/ MarkFindStep(c)
        \/ MarkFindFails(c)

SpecMarkFail == Init /\ [][NextMarkFail]_vars

\* ------------------------- a tree that grows while it is marked, two callers
\* documents ever inserted in these runs
MaxGrowDocs == 3

CreateGrow(c) ==
    /\ nextId + Cardinality(Creating) <= MaxGrowDocs
    /\ \E f \in TreePayloads : Create(c, "exp", f, 0)

\* one caller creates documents and moves the second or the third under
\* the first while the other marks the first
NextGrow ==
    \/ CreateGrow("c2")
    \/ \E n \in 2..MaxGrowDocs : Update("c2", Oid(n), [parent_id |-> Oid(1)])
    \/ MarkDelete("c1", Oid(1))
    \/ \E c \in Callers :
        \/ IndexInformation(c)
        \/ CreateIndexes(c)
        \/ InsertOneStep(c)
        \/ UpdateOneStep(c)
        \/ MarkUpdateOneStep(c)
        \/ MarkFindStep(c)

SpecGrow == Init /\ [][NextGrow]_vars

\* ===================================================================
\* Properties
\* ===================================================================
\* the identifiers of the documents of collection c
DocIds(c) == {c[n]["_id"] : n \in DOMAIN c}
IsDeleted(doc) == Has(doc, "deleted") /\ doc["deleted"] = TRUE

\* the identifiers of the documents whose parent_id is in S
ChildIds(c, S) ==
    {c[n]["_id"] : n \in {m \in DOMAIN c : Has(c[m], "parent_id")
                                            /\ c[m]["parent_id"] \in S}}

RECURSIVE DescendantsFrom(_, _)
DescendantsFrom(c, S) ==
    LET T == S \cup ChildIds(c, S)
    IN IF T = S THEN S ELSE DescendantsFrom(c, T)

\* the transitive descendants of id: its children, their children, ...
Descendants(c, id) == DescendantsFrom(c, ChildIds(c, {id}))

\* no document is its own transitive ancestor
Acyclic(c) == \A id \in DocIds(c) : id \notin Descendants(c, id)

Range(s) == {s[i] : i \in 1..Len(s)}

\* what get(id) returns in the current state
GetNow(id) == GetResult(coll, get(frame["c1"], id).fr.query)

\* caller c1 is back from a call of op that raised nothing
Returned(op) ==
    pc["c1"] = "done" /\ frame["c1"].op = op /\ frame["c1"].exc = ""

\* C1: on an acyclic store, with no other operation in between,
\* mark_delete(root) of an existing root returns root and all its transitive
\* descendants, each once, every identifier directly followed by the block
\* of its own descendants (depth-first pre-order), and get returns absence
\* for every returned identifier.
C1_MarkDeleteSubtree ==
    LET fr == frame["c1"]
        ret == fr.ret
    IN (/\ Returned("mark_delete")
        /\ fr.id \in DocIds(fr.pre)
        /\ Acyclic(fr.pre))
       => /\ Range(ret) = {fr.id} \cup Descendants(fr.pre, fr.id)
          /\ Len(ret) = Cardinality(Range(ret))
          /\ ret[1] = fr.id
          /\ \A i, j \in 1..Len(ret) :
                ret[j] \in Descendants(fr.pre, ret[i])
                <=> (i < j /\ j <= i + Cardinality(Descendants(fr.pre, ret[i])))
          /\ \A i \in 1..Len(ret) : GetNow(ret[i]) = <<>>

\* witness of C1: a root with two children, the first of which has a child
C1_Witness ==
    /\ Returned("mark_delete")
    /\ Acyclic(frame["c1"].pre)
    /\ frame["c1"].ret = <<Oid(1), Oid(2), Oid(4), Oid(3)>>
    /\ \A n \in 1..4 : ~IsDeleted(frame["c1"].pre[n])

\* C9: mark_delete of a well-formed identifier that has no document issues
\* its one update_one and no find, changes no document at any point, and
\* returns the empty list without raising.
C9_MarkDeleteMissing ==
    LET fr == frame["c1"]
    IN (/\ fr.op = "mark_delete"
        /\ ValidId(fr.args.id)
        /\ validate_experiment_id(fr.args.id) \notin DocIds(fr.pre))
       => /\ coll = fr.pre
          /\ pc["c1"] # "mark_find"
          /\ fr.ret = <<>>
          /\ fr.exc = ""

\* witness of C9: the missing identifier is the parent_id of a visible
\* document, which stays as it was
C9_Witness ==
    /\ Returned("mark_delete")
    /\ frame["c1"].id \notin DocIds(frame["c1"].pre)
    /\ \E n \in DOMAIN coll :
          /\ Has(coll[n], "parent_id")
          /\ coll[n]["parent_id"] = frame["c1"].id
          /\ ~IsDeleted(coll[n])

\* the identifier names a document that is not soft-deleted
Visible(c, id) == \E n \in DOMAIN c : c[n]["_id"] = id /\ ~IsDeleted(c[n])

\* C2: update of an identifier that has no document, or a soft-deleted one,
\* raises KeyError whatever the (validator-accepted) payload is.
C2_UpdateMissingRaises ==
    LET fr == frame["c1"]
    IN (/\ pc["c1"] = "done"
        /\ fr.op = "update"
        /\ ValidId(fr.args.id)
        /\ ValidDoc(pop_experiment_id(fr.args.doc_fields))
        /\ ~Visible(fr.pre, validate_experiment_id(fr.args.id)))
       => fr.exc = "KeyError"

\* C4: no step changes the status of a document that is COMPLETED or FAILED.
C4_StatusTerminal ==
    [][\A n \in DOMAIN coll :
          (n \in DOMAIN coll' /\ coll[n]["status"] \in {"COMPLETED", "FAILED"})
          => coll'[n]["status"] = coll[n]["status"]]_vars

\* C7: set_finished with a status other than COMPLETED and FAILED raises
\* ValueError at once: it has issued no database call, no document and no
\* index has changed, and the indexes-ensured flag is as the call found it.
C7_SetFinishedRejects ==
    LET fr == frame["c1"]
    IN (fr.op = "set_finished" /\ fr.args.status \notin {"COMPLETED", "FAILED"})
       => /\ pc["c1"] = "done"
          /\ fr.exc = "ValueError"
          /\ fr.dbcalls = 0
          /\ coll = fr.pre
          /\ indexes = fr.indexes_pre
          /\ indexes_ensured = fr.ensured_pre

\* witness of C7: the rejected call names a visible document and carries a
\* payload the validator would reject
C7_Witness ==
    /\ pc["c1"] = "done"
    /\ frame["c1"].op = "set_finished"
    /\ frame["c1"].args.status = "RUNNING"
    /\ frame["c1"].args.doc_fields = [status |-> "BOGUS"]
    /\ frame["c1"].exc = "ValueError"
    /\ Visible(coll, frame["c1"].args.id)

\* the identifier arguments of the call in frame fr
IdArguments(fr) ==
    CASE fr.op \in {"get", "update", "set_heartbeat", "set_finished", "mark_delete"}
            -> {fr.args.id}
      [] fr.op = "complete_deletion" -> Range(fr.args.id_list)
      [] OTHER -> {}

\* the call in frame fr gets as far as looking at its identifier
ReachesIdentifier(fr) ==
    /\ fr.op \in {"update", "set_heartbeat", "set_finished"}
          => ValidDoc(pop_experiment_id(fr.args.doc_fields))
    /\ fr.op = "set_finished" => fr.args.status \in {"COMPLETED", "FAILED"}

\* C8: every operation taking an identifier raises InvalidIdentifier for a
\* malformed one before it issues a database call, and set_heartbeat and
\* set_finished given the string form of the identifier of a visible
\* document update it as they do for the native form.
C8_IdentifiersValidated ==
    LET fr == frame["c1"]
    IN /\ (ReachesIdentifier(fr) /\ \E x \in IdArguments(fr) : ~ValidId(x))
          => /\ pc["c1"] = "done"
             /\ fr.exc = "InvalidIdentifier"
             /\ fr.dbcalls = 0
       /\ (/\ pc["c1"] = "done"
           /\ ReachesIdentifier(fr)
           /\ fr.op \in {"update", "set_heartbeat", "set_finished"}
           /\ fr.args.id.form = "str"
           /\ Visible(fr.pre, validate_experiment_id(fr.args.id)))
          => fr.exc = ""

\* what C3 says get returns for a document just created
FreshlyRunning(found) ==
    /\ found # <<>>
    /\ found[1]["status"] = "RUNNING"
    /\ found[1]["heartbeat"] = found[1]["start_time"]
    /\ ~IsDeleted(found[1])

\* C3 as stated: after every create that returned, get of the returned
\* identifier is a document with status RUNNING, heartbeat = start_time and
\* deleted absent or false.
C3_CreateDefaultsAlways ==
    Returned("create") => FreshlyRunning(GetNow(frame["c1"].ret[1]))

\* C3 amended: the same, for doc_fields that supply none of status,
\* heartbeat and deleted.
C3_CreateDefaults ==
    (/\ Returned("create")
     /\ DOMAIN frame["c1"].args.doc_fields \cap {"status", "heartbeat", "deleted"} = {})
    => FreshlyRunning(GetNow(frame["c1"].ret[1]))

\* witness of C3: the caller supplied a start_time other than the current
\* time, and heartbeat follows it
C3_Witness ==
    /\ Returned("create")
    /\ frame["c1"].args.doc_fields = [start_time |-> 1]
    /\ frame["c1"].args.now = 0
    /\ FreshlyRunning(GetNow(frame["c1"].ret[1]))

\* the document satisfies the caller's filter: every field of the filter
\* (id naming the identifier) is in the document with that value
SatisfiesFilter(doc, filter) ==
    \A k \in DOMAIN filter :
        LET key == IF k = "id" THEN "_id" ELSE k
        IN Has(doc, key) /\ doc[key] = filter[k]

\* how many of n sorted matches skip and limit let through
WindowSize(n, skip, limit) ==
    LET rest == IF n > skip THEN n - skip ELSE 0
    IN IF limit # 0 /\ limit < rest THEN limit ELSE rest

\* C5: fetch_docs without include_deleted yields no soft-deleted document,
\* whatever the filter says about deleted; with include_deleted it yields
\* documents satisfying the filter, soft-deleted or not, as many of them as
\* skip and limit let through.
C5_DeletedFiltering ==
    LET fr == frame["c1"]
        matching == {n \in DOMAIN coll : SatisfiesFilter(coll[n], fr.args.filter)}
    IN Returned("fetch_docs")
       => IF fr.args.include_deleted
          THEN /\ \A i \in 1..Len(fr.ret) :
                     \E n \in matching :
                        fr.ret[i] = from_database_experiment_doc(coll[n])
               /\ \A i, j \in 1..Len(fr.ret) : fr.ret[i] = fr.ret[j] => i = j
               /\ Len(fr.ret) = WindowSize(Cardinality(matching), fr.args.skip,
                                           fr.args.limit)
          ELSE \A i \in 1..Len(fr.ret) : ~IsDeleted(fr.ret[i])

\* witness of C5: the filter asks for deleted = True without include_deleted,
\* the store holds a soft-deleted and a visible document, and what comes
\* back is not soft-deleted
C5_Witness ==
    /\ Returned("fetch_docs")
    /\ ~frame["c1"].args.include_deleted
    /\ frame["c1"].args.filter = [deleted |-> TRUE]
    /\ \E n \in DOMAIN coll : IsDeleted(coll[n])
    /\ frame["c1"].ret # <<>>

\* the counter values of the documents the identifier list names
Named(c, id_list) == {n \in DOMAIN c : \E i \in 1..Len(id_list) : id_list[i].n = n}

\* C6: a complete_deletion that returns has removed exactly the documents
\* its list names and returns how many those were, however often and in
\* whichever form the list names them; when it repeats the call just made
\* with the same list, it returns 0 and leaves the collection as it was.
C6_CompleteDeletionIdempotent ==
    LET fr == frame["c1"]
    IN Returned("complete_deletion")
       => /\ fr.ret = <<Cardinality(Named(fr.pre, fr.args.id_list))>>
          /\ DOMAIN coll = DOMAIN fr.pre \ Named(fr.pre, fr.args.id_list)
          /\ \A n \in DOMAIN coll : coll[n] = fr.pre[n]
          /\ fr.repeat # <<>> => (fr.ret = <<0>> /\ coll = fr.pre)

\* witness of C6: the list names document 1 twice, once in each form; the
\* first call removed it and returned 1, the repeated call returned 0
C6_Witness ==
    /\ Returned("complete_deletion")
    /\ frame["c1"].args.id_list = <<Oid(1), Str(1)>>
    /\ frame["c1"].repeat = <<1>>
    /\ frame["c1"].ret = <<0>>

\* C10: when the caller of complete_deletion regains control, by return or
\* by exception, no delete_one the call dispatched is still pending.
C10_GatherWaitsForAll ==
    (pc["c1"] = "done" /\ frame["c1"].op = "complete_deletion")
    => frame["c1"].pending = {}

\* C11: identifiers are unique and immutable.  No two stored documents have
\* the same identifier and none carries an 'id' key; a step that inserts a
\* document stores it under the identifier the driver assigns, which no
\* stored document has, whatever 'id' or '_id' the doc_fields of create
\* carried; and no step changes the identifier of a stored document.
C11_IdentifiersImmutable ==
    [][/\ \A n, m \in DOMAIN coll' :
             coll'[n]["_id"] = coll'[m]["_id"] => n = m
       /\ \A n \in DOMAIN coll' :
             /\ ~Has(coll'[n], "id")
             /\ n \in DOMAIN coll => coll'[n]["_id"] = coll[n]["_id"]
             /\ n \notin DOMAIN coll
                   => /\ coll'[n]["_id"] = Oid(nextId)
                      /\ coll'[n]["_id"] \notin DocIds(coll)]_vars

\* witness of C11: an update of document 1 whose payload carried the
\* identifier of document 2 as '_id' went through: it renamed document 1
\* and both documents kept their identifiers
C11_Witness ==
    /\ Returned("update")
    /\ frame["c1"].args.doc_fields = [_id |-> Oid(2), name |-> "renamed"]
    /\ frame["c1"].id = Oid(1)
    /\ DOMAIN coll = {1, 2}
    /\ coll[1]["_id"] = Oid(1)
    /\ coll[1]["name"] = "renamed"
    /\ coll[2]["_id"] = Oid(2)

\* the document with its deleted flag set
Marked(doc) == SetFields(doc, [deleted |-> TRUE])

\* a database call of mark_delete removes no document and changes at most
\* the deleted flag of documents
MarkStepKeepsFields ==
    pc["c1"] \in {"mark_update_one", "mark_find"}
    => /\ DOMAIN coll' = DOMAIN coll
       /\ \A n \in DOMAIN coll : coll'[n] \in {coll[n], Marked(coll[n])}

\* a soft-deleted document stays as it is, unless the step is the delete_one
\* of a complete_deletion that names its identifier
MarkedStaysUntilCompleted ==
    \A n \in DOMAIN coll :
        IsDeleted(coll[n])
        => IF n \in DOMAIN coll' THEN coll'[n] = coll[n]
           ELSE pc["c1"] = "gather" /\ coll[n]["_id"] \in frame["c1"].pending

\* what the read just answered shows of the soft-deleted documents: get none,
\* fetch_docs none by default and each, with its flag, when asked to include
\* them
ReadsRespectMarks ==
    LET fr == frame["c1"]
    IN \A n \in DOMAIN coll :
          IsDeleted(coll[n])
          => /\ (Returned("get") /\ fr.id = coll[n]["_id"]) => fr.ret = <<>>
             /\ Returned("fetch_docs")
                   => (fr.args.include_deleted
                       <=> \E i \in 1..Len(fr.ret) :
                              /\ fr.ret[i] = from_database_experiment_doc(coll[n])
                              /\ fr.ret[i]["deleted"] = TRUE)

\* C12: mark_delete removes no document and changes no field but deleted;
\* a document it marked stays in the store unchanged until a
\* complete_deletion naming its identifier removes it, and as long as it
\* stays, get of its identifier returns absence, fetch_docs by default leaves
\* it out, and fetch_docs(include_deleted=True) returns it with deleted true.
C12_MarkedStaysPresent ==
    [][MarkStepKeepsFields /\ MarkedStaysUntilCompleted /\ ReadsRespectMarks']_vars

\* witness of C12: a parent and its child were created and marked, and
\* fetch_docs(include_deleted=True) returned both with their flag and with
\* the fields create gave them
C12_Witness ==
    /\ Returned("fetch_docs")
    /\ frame["c1"].args.include_deleted
    /\ Len(frame["c1"].ret) = 2
    /\ \A i \in 1..2 : /\ IsDeleted(frame["c1"].ret[i])
                       /\ frame["c1"].ret[i]["name"] = "exp"
                       /\ frame["c1"].ret[i]["status"] = "RUNNING"
    /\ \E i \in 1..2 : /\ Has(frame["c1"].ret[i], "parent_id")
                       /\ frame["c1"].ret[i]["parent_id"] = Oid(1)

\* the fields set_heartbeat and set_finished hand to $set, from the arguments
FieldsSet(fr) ==
    SetFields(Pop(Pop(fr.args.doc_fields, "_id"), "id"),
              IF fr.op = "set_heartbeat" THEN [heartbeat |-> fr.args.now]
              ELSE [stop_time |-> fr.args.now, heartbeat |-> fr.args.now,
                    status |-> fr.args.status])

\* C13: set_heartbeat and set_finished (valid status, accepted payload) that
\* are over: when no document that is not soft-deleted has the identifier
\* handed in as its identifier, the call raised KeyError and the collection
\* is as the call found it; otherwise it returned, that one document has the
\* new fields on top of its old ones, and every other document is as it was.
C13_SameExistenceCheck ==
    LET fr == frame["c1"]
        hit == {n \in DOMAIN fr.pre : /\ fr.pre[n]["_id"] = fr.args.id
                                      /\ ~IsDeleted(fr.pre[n])}
    IN (/\ pc["c1"] = "done"
        /\ fr.op \in {"set_heartbeat", "set_finished"}
        /\ ReachesIdentifier(fr))
       => IF hit = {}
          THEN fr.exc = "KeyError" /\ coll = fr.pre
          ELSE /\ fr.exc = ""
               /\ Cardinality(hit) = 1
               /\ DOMAIN coll = DOMAIN fr.pre
               /\ \A n \in DOMAIN coll :
                     coll[n] = IF n \in hit THEN SetFields(fr.pre[n], FieldsSet(fr))
                               ELSE fr.pre[n]

\* witness of C13: set_finished on a soft-deleted document, next to a visible
\* one, raised KeyError
C13_Witness ==
    /\ pc["c1"] = "done"
    /\ frame["c1"].op = "set_finished"
    /\ frame["c1"].exc = "KeyError"
    /\ frame["c1"].args.id = Oid(1)
    /\ 1 \in DOMAIN coll
    /\ IsDeleted(coll[1])
    /\ \E n \in DOMAIN coll : ~IsDeleted(coll[n])

\* the caller is in the index-ensurance work: it awaits index_information or
\* create_indexes
InIndexWork(p) == p \in {"index_information", "create_indexes"}

\* the call in frame fr has issued the index-ensurance work: it found the
\* flag unset and got as far as ensure_indexes, whose first await is the
\* first database call of every method that calls it
PerformedIndexWork(fr) ==
    /\ fr.op \in {"create", "update", "set_heartbeat", "set_finished",
                  "mark_delete", "complete_deletion"}
    /\ ~fr.ensured_pre
    /\ fr.dbcalls > 0

\* C14 as stated: of the calls the callers are in or made last, at most one
\* has performed the index-ensurance work.
C14_EnsuredAtMostOnce ==
    Cardinality({c \in Callers : PerformedIndexWork(frame[c])}) <= 1

\* C14 amended: a call starts the index-ensurance work only while the flag
\* is unset, a call that leaves the work sets the flag, and the flag once set
\* stays set; so no call that begins after one has completed the work
\* performs it again, while calls that begin before may each perform it.
C14_EnsuredOncePerCompletion ==
    [][/\ indexes_ensured => indexes_ensured'
       /\ \A c \in Callers :
             /\ (~InIndexWork(pc[c]) /\ InIndexWork(pc'[c])) => ~indexes_ensured
             /\ (InIndexWork(pc[c]) /\ ~InIndexWork(pc'[c])) => indexes_ensured']_vars

\* witness of C14: caller c1 performed the work, and a create caller c2
\* began after the flag was set went straight to its insert_one
C14_Witness ==
    /\ indexes_ensured
    /\ PerformedIndexWork(frame["c1"])
    /\ pc["c2"] = "done"
    /\ frame["c2"].op = "create"
    /\ frame["c2"].ensured_pre
    /\ frame["c2"].dbcalls = 1
    /\ frame["c2"].ret = <<Oid(2)>>

\* C15: the public operations never produce a parent_id cycle, and every
\* mark_delete of a well-formed identifier that is over has returned its
\* list.
C15_MarkDeleteTerminates ==
    /\ Acyclic(coll)
    /\ (/\ pc["c1"] = "done"
        /\ frame["c1"].op = "mark_delete"
        /\ ValidId(frame["c1"].args.id))
       => frame["c1"].exc = ""

\* the documents whose parent_id is id, as counter values in natural order
KidSlots(c, id) ==
    SelectSeq(SlotSeq(DOMAIN c),
              LAMBDA n : Has(c[n], "parent_id") /\ c[n]["parent_id"] = id)

RECURSIVE PreorderOf(_, _), PreorderAll(_, _)
\* the depth-first visiting order from id in an acyclic collection: id, then
\* the order from each of its children in turn
PreorderOf(c, id) ==
    IF id \notin DocIds(c) THEN <<>>
    ELSE <<id>> \o PreorderAll(c, [i \in 1..Len(KidSlots(c, id)) |->
                                      c[KidSlots(c, id)[i]]["_id"]])
PreorderAll(c, ids) ==
    IF ids = <<>> THEN <<>>
    ELSE PreorderOf(c, Head(ids)) \o PreorderAll(c, Tail(ids))

\* C16: a mark_delete in which a database call failed is over with that
\* exception, and the collection is the one the call found with the deleted
\* flag set on the first k documents of the depth-first visiting order, for
\* some k: those before the failure are marked, no mark is taken back, and
\* every other document is as it was.
C16_MarkDeleteFailsAtPrefix ==
    LET fr == frame["c1"]
        order == PreorderOf(fr.pre, fr.id)
    IN (fr.op = "mark_delete" /\ fr.failed /\ Acyclic(fr.pre))
       => /\ pc["c1"] = "done"
          /\ fr.exc = "DBError"
          /\ DOMAIN coll = DOMAIN fr.pre
          /\ \E k \in 0..Len(order) :
                \A n \in DOMAIN coll :
                   coll[n] = IF fr.pre[n]["_id"] \in Range(SubSeq(order, 1, k))
                             THEN Marked(fr.pre[n])
                             ELSE fr.pre[n]

\* witness of C16: of a root with two children, the first of which has a
\* child, the walk marked the root and the first child, then a database call
\* failed; the grandchild and the second child are as they were
C16_Witness ==
    /\ pc["c1"] = "done"
    /\ frame["c1"].op = "mark_delete"
    /\ frame["c1"].exc = "DBError"
    /\ PreorderOf(frame["c1"].pre, frame["c1"].id) = <<Oid(1), Oid(2), Oid(4), Oid(3)>>
    /\ \A n \in 1..4 : ~IsDeleted(frame["c1"].pre[n])
    /\ IsDeleted(coll[1]) /\ IsDeleted(coll[2])
    /\ coll[3] = frame["c1"].pre[3] /\ coll[4] = frame["c1"].pre[4]

\* C17: on an acyclic store a mark_delete that returns has walked the whole
\* subtree, soft-deleted documents included: it returns the depth-first
\* visiting order from its target whatever the deleted flags were.  When it
\* repeats the mark_delete just made, with nothing in between, it returns
\* the list that one returned and leaves the collection as it found it.
C17_MarkDeleteRewalks ==
    LET fr == frame["c1"]
    IN (Returned("mark_delete") /\ Acyclic(fr.pre))
       => /\ fr.ret = PreorderOf(fr.pre, fr.id)
          /\ fr.repeat # <<>> => (fr.ret = fr.repeat /\ coll = fr.pre)

\* witness of C17: the second mark_delete of a root with two children and a
\* grandchild, all marked by the first, returned the same four identifiers
C17_Witness ==
    /\ Returned("mark_delete")
    /\ frame["c1"].repeat = <<Oid(1), Oid(2), Oid(4), Oid(3)>>
    /\ frame["c1"].ret = frame["c1"].repeat
    /\ \A n \in 1..4 : IsDeleted(frame["c1"].pre[n])

\* every stored document whose parent_id is in the list the mark_delete of
\* caller c1 returned is soft-deleted
ClosedUnderChildren ==
    \A n \in DOMAIN coll :
        (Has(coll[n], "parent_id") /\ coll[n]["parent_id"] \in Range(frame["c1"].ret))
        => IsDeleted(coll[n])

\* C18: in the state in which mark_delete(root) returns, every stored
\* document whose parent_id is an identifier of the returned list is
\* soft-deleted, whatever create and update calls of the other caller ran
\* during the walk.
C18_SubtreeClosedAtReturn ==
    [][(pc["c1"] # "done" /\ Returned("mark_delete")') => ClosedUnderChildren']_vars

\* C18 amended: when mark_delete(root) has returned, every stored document
\* whose parent_id is an identifier of the returned list is soft-deleted,
\* unless the walk's find for that identifier did not yield it: it was given
\* that parent_id, by a create or an update of the other caller, after the
\* walk had read the children of that identifier.  Writes of the other
\* caller served during the walk and before that find are covered.  Every
\* document a find of the walk yielded is soft-deleted if it is still
\* stored, wherever it sits by then.
C18_SubtreeClosedOverListing ==
    LET fr == frame["c1"]
    IN Returned("mark_delete")
       => /\ \A n \in DOMAIN coll :
                (/\ Has(coll[n], "parent_id")
                 /\ coll[n]["parent_id"] \in Range(fr.ret)
                 /\ <<coll[n]["parent_id"], coll[n]["_id"]>> \in fr.listed)
                => IsDeleted(coll[n])
          /\ \A n \in DOMAIN coll :
                (\E p \in Range(fr.ret) : <<p, coll[n]["_id"]>> \in fr.listed)
                => IsDeleted(coll[n])

\* witness of C18: mark_delete(root) found the root alone; the second
\* document was created under the root during the walk before the walk read
\* the root's children, and is listed, returned and soft-deleted; the third
\* was created under the root after that read and is visible
C18_Witness ==
    /\ Returned("mark_delete")
    /\ DOMAIN frame["c1"].pre = {1}
    /\ frame["c1"].ret = <<Oid(1), Oid(2)>>
    /\ frame["c1"].listed = {<<Oid(1), Oid(2)>>}
    /\ DOMAIN coll = {1, 2, 3}
    /\ IsDeleted(coll[1]) /\ IsDeleted(coll[2])
    /\ Has(coll[3], "parent_id") /\ coll[3]["parent_id"] = Oid(1)
    /\ ~IsDeleted(coll[3])

\* C19: soft deletion is irreversible.  In every step, a soft-deleted
\* document that is still stored afterwards is exactly as it was (its flag
\* stays true and no update, set_heartbeat or set_finished changes a field),
\* an identifier once assigned and no longer stored is not stored afterwards
\* either, and get of the identifier of a soft-deleted document returns
\* absence after the step.
C19_SoftDeleteIrreversible ==
    [][/\ \A n \in DOMAIN coll :
             IsDeleted(coll[n])
             => /\ n \in DOMAIN coll' => coll'[n] = coll[n]
                /\ \A id \in {coll[n]["_id"]} : GetNow(id)' = <<>>
       /\ \A n \in 1..(nextId - 1) :
             Oid(n) \notin DocIds(coll) => Oid(n) \notin DocIds(coll')]_vars

\* witness of C19: a set_finished that began while the document was visible
\* was served after the other caller's mark_delete and raised KeyError; the
\* document has its flag and the status it had
C19_Witness ==
    /\ pc["c2"] = "done"
    /\ frame["c2"].op = "set_finished"
    /\ frame["c2"].exc = "KeyError"
    /\ 1 \in DOMAIN frame["c2"].pre
    /\ ~IsDeleted(frame["c2"].pre[1])
    /\ 1 \in DOMAIN coll
    /\ IsDeleted(coll[1])
    /\ coll[1]["status"] = "RUNNING"

\* C20: a step removes a document only as the delete_one of a
\* complete_deletion, and only a document whose deleted flag is true.
C20_TwoPhaseDeletion ==
    [][\A n \in DOMAIN coll \ DOMAIN coll' :
          /\ pc["c1"] = "gather"
          /\ IsDeleted(coll[n])]_vars

====
